---- MODULE Spec2Model ----
(***************************************************************************)
(* Model of examples/utils/synthetic_data.py (GradientCast examples).      *)
(*                                                                         *)
(* The module is a library of generator functions; the only state that     *)
(* survives a call is numpy's process-wide random generator.  The state    *)
(* machine below is "a caller invokes one of the nine functions": every    *)
(* action is one whole call, its arguments drawn from small sets, and the  *)
(* state records the call, what it returned or raised, and the random      *)
(* draws it made, in order.  The calls share nothing but the generator,    *)
(* so a behaviour is one call made with the generator in state rng.        *)
(*                                                                         *)
(* Randomness.  Gaussian samples are read from the generator's stream (Z). *)
(* The outcomes of np.random.choice and of datetime.now() are inputs of    *)
(* the call, ranging over every outcome they can have; args records them   *)
(* (picked, signs, now) beside the caller's arguments.                     *)
(*                                                                         *)
(* Numbers.  A Python float is modelled in fixed point: the integer v      *)
(* stands for v / Scale.  Fractions (noise_level, amplitude, ...) use the  *)
(* same unit.  A standard-normal sample is modelled as an integer z in     *)
(* -1 .. 1 taken from the generator's stream.                              *)
(***************************************************************************)
EXTENDS Integers, Sequences, FiniteSets, TLC

VARIABLES fn, args, ret, raised, draws, rng

vars == <<fn, args, ret, raised, draws, rng>>

----------------------------------------------------------------------------
(* Bounds of the model *)

MaxPoints == 4
MaxSeed == 2
MaxSeries == 2
MaxDays == 6
MaxHorizon == 2

\* the fixed-point unit: the resolution of the smallest literal of the source, 0.001
Scale == 1000

Points == 0 .. MaxPoints
Seeds == 0 .. MaxSeed

----------------------------------------------------------------------------
(* Results of a call: a value, or the exception that left the function *)

Ok(v, d) == [raised |-> "none", value |-> v, draws |-> d]

Raise(e, d) == [raised |-> e, value |-> <<>>, draws |-> d]

None == [some |-> FALSE]

Some(v) == [some |-> TRUE, val |-> v]

----------------------------------------------------------------------------
(* Fixed-point arithmetic and the numpy helpers the functions use *)

Max(a, b) == IF a >= b THEN a ELSE b

\* Python int(): truncation toward zero
Trunc(v) == IF v >= 0 THEN v \div Scale ELSE -((-v) \div Scale)

FMul(a, b) == IF a * b >= 0 THEN (a * b) \div Scale ELSE -((-(a * b)) \div Scale)

RECURSIVE FPow(_, _)
FPow(f, t) == IF t = 0 THEN Scale ELSE FMul(f, FPow(f, t - 1))

\* np.arange(n): the indices 0 .. n-1 (held at positions 1 .. n)
arange(n) == [i \in 1 .. n |-> i - 1]

\* np.full(n, v)
full(n, v) == [i \in 1 .. n |-> v]

SeqAdd(a, b) == [i \in DOMAIN a |-> a[i] + b[i]]

\* np.linspace(0, stop, n): n evenly spaced samples, both ends included
linspace(stop, n) == [i \in 1 .. n |-> IF n = 1 THEN 0 ELSE ((i - 1) * stop) \div (n - 1)]

\* np.log1p on the indices the model reaches, in fixed point
Log1pTable == <<0, 693, 1099, 1386, 1609, 1792, 1946, 2079, 2197, 2303>>

log1p(t) == Log1pTable[t + 1]

\* sin(2*pi*t/period) for a positive period, in fixed point
\* (Bhaskara's rational approximation on each half period)
SinTurn(t, period) ==
    LET r == t % period
        a == IF 2 * r <= period THEN 2 * r * (period - 2 * r)
                                ELSE (2 * r - period) * (2 * period - 2 * r)
        m == (16 * Scale * a) \div (5 * period * period - 4 * a)
    IN  IF 2 * r <= period THEN m ELSE -m

\* np.sin(2 * np.pi * t / period); sin is odd, so a negative period negates
sin2pi(t, period) == IF period > 0 THEN SinTurn(t, period) ELSE -SinTurn(t, -period)

\* the k-th standard-normal sample of the generator seeded with seed
Z(seed, k) == ((k * (seed + 1) + (k \div 3)) % 3) - 1

\* np.random.randn(size), read from the stream after position pos
randn(size, seed, pos) == [i \in 1 .. size |-> Z(seed, pos + i)]

\* np.random.normal(loc, scale, size): numpy rejects a negative scale
normal(loc, scale, size, seed, pos) ==
    IF scale < 0
    THEN Raise("ValueError", <<>>)
    ELSE Ok([i \in 1 .. size |-> loc + scale * Z(seed, pos + i)],
            <<<<"normal", size>>>>)

----------------------------------------------------------------------------
(* generate_trend_series *)

generate_trend_series(n_points, trend_type, base_value, trend_strength, noise_level, seed) ==
    LET t == arange(n_points)
        trend ==
            IF trend_type = "linear"
            THEN [i \in 1 .. n_points |-> base_value + trend_strength * t[i]]
            ELSE IF trend_type = "exponential"
            THEN [i \in 1 .. n_points |->
                     FMul(base_value, FPow(Scale + FMul(10, trend_strength), t[i]))]
            ELSE IF trend_type = "logarithmic"
            THEN [i \in 1 .. n_points |-> base_value + FMul(trend_strength * 10, log1p(t[i]))]
            ELSE full(n_points, base_value)
        noise == normal(0, FMul(base_value, noise_level), n_points, seed, 0)
    IN  IF noise.raised # "none" THEN noise
        ELSE Ok(SeqAdd(trend, noise.value), noise.draws)

----------------------------------------------------------------------------
(* generate_seasonal_series *)

\* a variant whose default period is 1
period_map_default_one(seasonality) ==
    IF seasonality = "hourly" THEN 24
    ELSE IF seasonality = "daily" THEN 7
    ELSE IF seasonality = "weekly" THEN 52
    ELSE IF seasonality = "monthly" THEN 12
    ELSE 1

period_map(seasonality) ==
    IF seasonality = "hourly" THEN 24
    ELSE IF seasonality = "daily" THEN 7
    ELSE IF seasonality = "weekly" THEN 52
    ELSE IF seasonality = "monthly" THEN 12
    ELSE IF seasonality = "yearly" THEN 1
    ELSE 7

generate_seasonal_series(n_points, base_value, seasonality, amplitude, noise_level, seed) ==
    LET t == arange(n_points)
        period == period_map(seasonality)
        seasonal == [i \in 1 .. n_points |->
                        FMul(FMul(base_value, amplitude), sin2pi(t[i], period))]
        noise == normal(0, FMul(base_value, noise_level), n_points, seed, 0)
    IN  IF noise.raised # "none" THEN noise
        ELSE Ok([i \in 1 .. n_points |-> base_value + seasonal[i] + noise.value[i]],
                noise.draws)

----------------------------------------------------------------------------
(* generate_trend_seasonal_series                                          *)
(* The period is a caller-supplied integer, so 2*pi*t/period can divide by *)
(* zero: numpy then yields inf or nan (a warning, no exception), sin of    *)
(* either is nan, and nan survives the multiplication and the sums.  The   *)
(* elements of this function's result are therefore floats that may be nan *)

Float(v) == [nan |-> FALSE, v |-> v]

NaN == [nan |-> TRUE, v |-> 0]

FloatMul(x, y) == IF x.nan \/ y.nan THEN NaN ELSE Float(FMul(x.v, y.v))

FloatAdd(x, y) == IF x.nan \/ y.nan THEN NaN ELSE Float(x.v + y.v)

\* np.sin(2 * np.pi * t / seasonal_period)
FloatSin2pi(t, period) == IF period = 0 THEN NaN ELSE Float(sin2pi(t, period))

\* a variant whose trend starts one step late
trend_seasonal_trend_from_one(n_points, base_value, trend_strength) ==
    [i \in 1 .. n_points |-> Float(base_value + trend_strength * i)]

\* trend = base_value + trend_strength * t
trend_seasonal_trend(n_points, base_value, trend_strength) ==
    LET t == arange(n_points)
    IN  [i \in 1 .. n_points |-> Float(base_value + trend_strength * t[i])]

generate_trend_seasonal_series(n_points, base_value, trend_strength, seasonal_period, seasonal_amplitude, noise_level, seed) ==
    LET t == arange(n_points)
        trend == trend_seasonal_trend(n_points, base_value, trend_strength)
        seasonal == [i \in 1 .. n_points |->
                        FloatMul(Float(FMul(base_value, seasonal_amplitude)),
                                 FloatSin2pi(t[i], seasonal_period))]
        noise == normal(0, FMul(base_value, noise_level), n_points, seed, 0)
    IN  IF noise.raised # "none" THEN noise
        ELSE Ok([i \in 1 .. n_points |->
                    FloatAdd(FloatAdd(trend[i], seasonal[i]), Float(noise.value[i]))],
                noise.draws)

----------------------------------------------------------------------------
(* generate_anomaly_series *)

\* the sequences of size distinct members of population
Arrangements(population, size) ==
    {s \in [1 .. size -> population] : \A i, j \in 1 .. size : i # j => s[i] # s[j]}

\* np.random.choice(population, size, replace=False): every outcome it can
\* have.  numpy raises ValueError when samples are asked of an empty
\* population, or more samples than the population holds
choice(population, size) ==
    IF size > 0 /\ population = {}
    THEN {Raise("ValueError", <<>>)}
    ELSE IF size > Cardinality(population)
    THEN {Raise("ValueError", <<>>)}
    ELSE {Ok(s, <<<<"choice", size>>>>) : s \in Arrangements(population, size)}

\* a variant that treats 'down' as 'up'
anomaly_sign_down_as_up(anomaly_direction, drawn) ==
    IF anomaly_direction \in {"up", "down"} THEN 1 ELSE drawn

\* the sign of one anomaly; drawn is the outcome of np.random.choice([-1, 1])
anomaly_sign(anomaly_direction, drawn) ==
    IF anomaly_direction = "up" THEN 1
    ELSE IF anomaly_direction = "down" THEN -1
    ELSE drawn

\* a variant whose upper bound is off by one
in_range_off_by_one(idx, n_points) == 0 <= idx /\ idx < n_points - 1

\* the guard of the injection loop
in_range(idx, n_points) == 0 <= idx /\ idx < n_points

\* the loop over anomaly_indices, from its k-th entry on
RECURSIVE anomaly_loop(_, _, _, _, _, _, _, _)
anomaly_loop(k, acc, anomaly_indices, n_points, base_value, anomaly_magnitude, anomaly_direction, signs) ==
    IF k > Len(anomaly_indices) THEN acc
    ELSE LET idx == anomaly_indices[k]
             sign == anomaly_sign(anomaly_direction, signs[k])
             drawn == IF anomaly_direction \in {"up", "down"} THEN <<>>
                      ELSE <<<<"choice", 1>>>>
         IN  IF in_range(idx, n_points)
             THEN anomaly_loop(k + 1,
                      [values |-> [acc.values EXCEPT
                                      ![idx + 1] = @ + FMul(sign * base_value, anomaly_magnitude)],
                       flags |-> [acc.flags EXCEPT ![idx + 1] = TRUE],
                       draws |-> acc.draws \o drawn],
                      anomaly_indices, n_points, base_value, anomaly_magnitude,
                      anomaly_direction, signs)
             ELSE anomaly_loop(k + 1, acc, anomaly_indices, n_points, base_value,
                      anomaly_magnitude, anomaly_direction, signs)

\* the number of anomalies when the caller gives no indices
default_n_anomalies(n_points) == Max(1, (n_points * 50) \div Scale)

\* the series before any anomaly is injected: slight trend plus noise
anomaly_base_series(n_points, base_value, noise) ==
    LET t == arange(n_points)
    IN  [i \in 1 .. n_points |-> base_value + FMul(1, base_value) * t[i] + noise[i]]

\* picked is the outcome of the np.random.choice call made when
\* anomaly_indices is None; signs[k] the sign drawn for the k-th index
generate_anomaly_series(n_points, base_value, anomaly_indices, anomaly_magnitude, anomaly_direction, noise_level, seed, picked, signs) ==
    LET noise == normal(0, FMul(base_value, noise_level), n_points, seed, 0)
        values == anomaly_base_series(n_points, base_value, noise.value)
        anomaly_flags == [i \in 1 .. n_points |-> FALSE]
        indices == IF anomaly_indices.some THEN anomaly_indices.val ELSE picked.value
        chosen == IF anomaly_indices.some THEN <<>> ELSE picked.draws
        done == anomaly_loop(1, [values |-> values, flags |-> anomaly_flags,
                                 draws |-> noise.draws \o chosen],
                             indices, n_points, base_value, anomaly_magnitude,
                             anomaly_direction, signs)
    IN  IF noise.raised # "none" THEN noise
        ELSE IF ~anomaly_indices.some /\ picked.raised # "none"
        THEN Raise(picked.raised, noise.draws)
        ELSE Ok(<<done.values, done.flags>>, done.draws)

----------------------------------------------------------------------------
(* generate_timestamps                                                     *)
(* A datetime is the number of seconds since 2000-01-01 00:00:00, a        *)
(* timedelta a number of seconds.                                          *)

timedelta(days, hours) == days * 86400 + hours * 3600

Pad2(n) == ToString(n \div 10) \o ToString(n % 10)

Pad4(n) == Pad2(n \div 100) \o Pad2(n % 100)

\* the civil date <<year, month, day>> of a day count since 2000-01-01
\* (proleptic Gregorian calendar, as used by datetime)
CivilFromDays(days) ==
    LET z == days + 10957 + 719468
        era == z \div 146097
        doe == z - era * 146097
        yoe == (doe - doe \div 1460 + doe \div 36524 - doe \div 146096) \div 365
        doy == doe - (365 * yoe + yoe \div 4 - yoe \div 100)
        mp == (5 * doy + 2) \div 153
        d == doy - (153 * mp + 2) \div 5 + 1
        m == IF mp < 10 THEN mp + 3 ELSE mp - 9
        y == yoe + era * 400 + (IF m <= 2 THEN 1 ELSE 0)
    IN  <<y, m, d>>

\* dt.strftime("%m/%d/%Y, %I:%M %p")
strftime(dt) ==
    LET date == CivilFromDays(dt \div 86400)
        secs == dt % 86400
        hour == secs \div 3600
        minute == (secs % 3600) \div 60
        hour12 == IF hour % 12 = 0 THEN 12 ELSE hour % 12
    IN  Pad2(date[2]) \o "/" \o Pad2(date[3]) \o "/" \o Pad4(date[1]) \o ", "
            \o Pad2(hour12) \o ":" \o Pad2(minute) \o " "
            \o (IF hour < 12 THEN "AM" ELSE "PM")

\* a variant whose week has five days
freq_delta_short_week(freq) ==
    IF freq = "H" THEN timedelta(0, 1)
    ELSE IF freq = "D" THEN timedelta(1, 0)
    ELSE IF freq = "W" THEN timedelta(5, 0)
    ELSE IF freq = "M" THEN timedelta(30, 0)
    ELSE timedelta(0, 1)

freq_delta(freq) ==
    IF freq = "H" THEN timedelta(0, 1)
    ELSE IF freq = "D" THEN timedelta(1, 0)
    ELSE IF freq = "W" THEN timedelta(7, 0)
    ELSE IF freq = "M" THEN timedelta(30, 0)
    ELSE timedelta(0, 1)

\* the loop "for i in range(n_points)", from index i on
RECURSIVE timestamps_loop(_, _, _, _)
timestamps_loop(i, n_points, start_date, delta) ==
    IF i >= n_points THEN <<>>
    ELSE <<strftime(start_date + i * delta)>>
             \o timestamps_loop(i + 1, n_points, start_date, delta)

\* now is the value of datetime.now() at the call
generate_timestamps(n_points, start_date, freq, now) ==
    LET start == IF start_date.some THEN start_date.val ELSE now - timedelta(30, 0)
        delta == freq_delta(freq)
    IN  Ok(timestamps_loop(0, n_points, start, delta), <<>>)

----------------------------------------------------------------------------
(* generate_ad_payload_data *)

ad_n_anomalies(n_points, anomaly_ratio) == Max(1, (n_points * anomaly_ratio) \div Scale)

\* range(n_points // 2, n_points)
second_half(n_points) == (n_points \div 2) .. (n_points - 1)

\* zip(timestamps, values): as many pairs as the shorter of the two
zip_records(timestamps, values) ==
    [i \in 1 .. (IF Len(timestamps) <= Len(values) THEN Len(timestamps) ELSE Len(values)) |->
        [timestamp |-> timestamps[i], value |-> Trunc(values[i])]]

\* picked is the outcome of np.random.choice over the second half
generate_ad_payload_data(n_points, base_value, inject_anomalies, anomaly_ratio, now, seed, picked, signs) ==
    LET timestamps == generate_timestamps(n_points, None, "H", now)
        series == IF inject_anomalies
                  THEN generate_anomaly_series(n_points, base_value, Some(picked.value),
                           400, "both", 30, seed, picked, signs)
                  ELSE generate_anomaly_series(n_points, base_value, Some(<<>>),
                           500, "both", 30, seed, picked, signs)
    IN  IF inject_anomalies /\ picked.raised # "none"
        THEN Raise(picked.raised, <<>>)
        ELSE IF series.raised # "none" THEN series
        ELSE Ok(zip_records(timestamps.value, series.value[1]),
                (IF inject_anomalies THEN picked.draws ELSE <<>>) \o series.draws)

----------------------------------------------------------------------------
(* Python dicts: functions from keys to values *)

EmptyDict == [k \in {} |-> 0]

\* d[key] = value: inserts the key, or replaces the value it had
DictSet(d, key, value) ==
    [k \in DOMAIN d \cup {key} |-> IF k = key THEN value ELSE d[k]]

----------------------------------------------------------------------------
(* generate_multivariate_series *)

\* floor of the square root
ISqrt(x) == CHOOSE r \in 0 .. Scale : r * r <= x /\ (r + 1) * (r + 1) > x

\* base_values when the caller gives none
default_base_values(n_series) == [i \in 1 .. n_series |-> (100 + (i - 1) * 50) * Scale]

\* the body of the loop for series i (from 0): its values
multivariate_values(i, n_points, base, correlation, noise_level, common_component, individual) ==
    LET combined == [t \in 1 .. n_points |->
                        correlation * common_component[t]
                        + ISqrt(Scale * Scale - correlation * correlation) * individual[t]]
        trend == linspace(FMul(base, 300), n_points)
    IN  [t \in 1 .. n_points |->
            base + trend[t] + FMul(FMul(combined[t], base), noise_level)]

\* a variant that draws the common component again for every series
RECURSIVE multivariate_loop_redraw(_, _, _, _, _, _, _, _, _, _)
multivariate_loop_redraw(i, acc, n_series, n_points, base_values, correlation, noise_level, common_component, seed, pos) ==
    IF i >= n_series THEN acc
    ELSE LET base == IF i < Len(base_values) THEN base_values[i + 1] ELSE 100 * Scale
             common == randn(n_points, seed, pos)
             individual == randn(n_points, seed, pos + n_points)
             values == multivariate_values(i, n_points, base, correlation, noise_level,
                                           common, individual)
         IN  multivariate_loop_redraw(i + 1,
                 [series_dict |-> DictSet(acc.series_dict, "series_" \o ToString(i), values),
                  draws |-> acc.draws \o <<<<"randn", n_points>>, <<"randn", n_points>>>>],
                 n_series, n_points, base_values, correlation, noise_level,
                 common_component, seed, pos + 2 * n_points)

\* the loop "for i in range(n_series)", from series i on; pos is the
\* position the generator's stream has reached
RECURSIVE multivariate_loop(_, _, _, _, _, _, _, _, _, _)
multivariate_loop(i, acc, n_series, n_points, base_values, correlation, noise_level, common_component, seed, pos) ==
    IF i >= n_series THEN acc
    ELSE LET base == IF i < Len(base_values) THEN base_values[i + 1] ELSE 100 * Scale
             individual == randn(n_points, seed, pos)
             values == multivariate_values(i, n_points, base, correlation, noise_level,
                                           common_component, individual)
         IN  multivariate_loop(i + 1,
                 [series_dict |-> DictSet(acc.series_dict, "series_" \o ToString(i), values),
                  draws |-> acc.draws \o <<<<"randn", n_points>>>>],
                 n_series, n_points, base_values, correlation, noise_level,
                 common_component, seed, pos + n_points)

generate_multivariate_series(n_series, n_points, base_values, correlation, noise_level, seed) ==
    LET bv == IF base_values.some THEN base_values.val ELSE default_base_values(n_series)
        common_component == randn(n_points, seed, 0)
        done == multivariate_loop(0,
                    [series_dict |-> EmptyDict, draws |-> <<<<"randn", n_points>>>>],
                    n_series, n_points, bv, correlation, noise_level,
                    common_component, seed, n_points)
    IN  Ok(done.series_dict, done.draws)

----------------------------------------------------------------------------
(* generate_covariates *)

categories == <<"electronics", "clothing", "food", "home">>

days == <<"Mon", "Tue", "Wed", "Thu", "Fri", "Sat", "Sun">>

\* a variant that extends into the horizon whatever include_horizon says
covariates_total_len_always_horizon(n_points, include_horizon, horizon_len) ==
    n_points + horizon_len

covariates_total_len(n_points, include_horizon, horizon_len) ==
    IF include_horizon THEN n_points + horizon_len ELSE n_points

\* {sid: 100.0 + i * 50 for i, sid in enumerate(series_ids)}, from entry k on
RECURSIVE base_price_dict(_, _, _)
base_price_dict(k, acc, series_ids) ==
    IF k > Len(series_ids) THEN acc
    ELSE base_price_dict(k + 1,
             DictSet(acc, series_ids[k], (100 + (k - 1) * 50) * Scale), series_ids)

\* {sid: categories[i % len(categories)] for i, sid in enumerate(series_ids)}
RECURSIVE category_dict(_, _, _)
category_dict(k, acc, series_ids) ==
    IF k > Len(series_ids) THEN acc
    ELSE category_dict(k + 1,
             DictSet(acc, series_ids[k], categories[((k - 1) % Len(categories)) + 1]),
             series_ids)

\* [loc + amp * sin(2*pi*t/24) + normal(0, sigma) for t in range(length)]:
\* one scalar draw per element
daily_wave(loc, amp, sigma, length, seed, pos) ==
    [i \in 1 .. length |->
        loc + FMul(amp, sin2pi(i - 1, 24)) + sigma * Z(seed, pos + i)]

scalar_draws(length) == [i \in 1 .. length |-> <<"normal", 1>>]

\* {sid: [wave ...] for sid in series_ids}, from entry k on: every entry of
\* the list draws its own samples, a repeated identifier keeps the last
RECURSIVE wave_dict(_, _, _, _, _, _, _, _, _)
wave_dict(k, acc, series_ids, loc, amp, sigma, length, seed, pos) ==
    IF k > Len(series_ids) THEN acc
    ELSE wave_dict(k + 1,
             [dict |-> DictSet(acc.dict, series_ids[k],
                               daily_wave(loc, amp, sigma, length, seed, pos)),
              draws |-> acc.draws \o scalar_draws(length)],
             series_ids, loc, amp, sigma, length, seed, pos + length)

\* {sid: [days[t % 7] for t in range(total_len)] for sid in series_ids}
RECURSIVE day_of_week_dict(_, _, _, _)
day_of_week_dict(k, acc, series_ids, total_len) ==
    IF k > Len(series_ids) THEN acc
    ELSE day_of_week_dict(k + 1,
             DictSet(acc, series_ids[k], [i \in 1 .. total_len |-> days[((i - 1) % 7) + 1]]),
             series_ids, total_len)

generate_covariates(n_points, series_ids, include_horizon, horizon_len, seed, pos) ==
    LET total_len == covariates_total_len(n_points, include_horizon, horizon_len)
        static_numerical ==
            DictSet(EmptyDict, "base_price", base_price_dict(1, EmptyDict, series_ids))
        static_categorical ==
            DictSet(EmptyDict, "category", category_dict(1, EmptyDict, series_ids))
        temperature == wave_dict(1, [dict |-> EmptyDict, draws |-> <<>>], series_ids,
                                 20 * Scale, 10 * Scale, 2 * Scale, total_len, seed, pos)
        dynamic_numerical == DictSet(EmptyDict, "temperature", temperature.dict)
        dynamic_categorical ==
            DictSet(EmptyDict, "day_of_week",
                    day_of_week_dict(1, EmptyDict, series_ids, total_len))
    IN  Ok([static_numerical_covariates |-> static_numerical,
            static_categorical_covariates |-> static_categorical,
            dynamic_numerical_covariates |-> dynamic_numerical,
            dynamic_categorical_covariates |-> dynamic_categorical],
           temperature.draws)

----------------------------------------------------------------------------
(* generate_electricity_like_data *)

\* the 24 intraday multipliers
hourly_pattern ==
    <<800, 700, 700, 700, 800, 900,
      1000, 1200, 1300, 1200, 1100, 1000,
      1000, 1100, 1100, 1200, 1300, 1400,
      1300, 1200, 1100, 1000, 900, 800>>

\* np.tile(pattern, reps)
tile(pattern, reps) ==
    [i \in 1 .. (Len(pattern) * reps) |-> pattern[((i - 1) % Len(pattern)) + 1]]

\* a variant whose week has six working days
weekly_pattern_six_days(n_points) ==
    [i \in 1 .. n_points |-> IF ((i - 1) \div 24) % 7 < 6 THEN Scale ELSE 850]

\* [1.0 if (i // 24) % 7 < 5 else 0.85 for i in range(n_points)]
weekly_pattern(n_points) ==
    [i \in 1 .. n_points |-> IF ((i - 1) \div 24) % 7 < 5 THEN Scale ELSE 850]

country_base(country) == IF country = "FR" THEN 50 ELSE 55

\* the loop "for country in countries", from entry k on
RECURSIVE prices_loop(_, _, _, _, _, _, _)
prices_loop(k, acc, countries, n_days, n_points, seed, pos) ==
    IF k > Len(countries) THEN acc
    ELSE LET base == country_base(countries[k])
             hourly == tile(hourly_pattern, n_days)
             weekly == weekly_pattern(n_points)
             trend == linspace(5 * Scale, n_points)
             noise == normal(0, 3 * Scale, n_points, seed, pos)
         IN  prices_loop(k + 1,
                 [prices |-> DictSet(acc.prices, countries[k],
                                 [i \in 1 .. n_points |->
                                     FMul(base * hourly[i], weekly[i]) + trend[i]
                                     + noise.value[i]]),
                  draws |-> acc.draws \o noise.draws],
                 countries, n_days, n_points, seed, pos + n_points)

generate_electricity_like_data(n_days, countries, seed) ==
    LET cs == IF countries.some THEN countries.val ELSE <<"FR", "BE">>
        n_points == n_days * 24
        priced == prices_loop(1, [prices |-> EmptyDict, draws |-> <<>>], cs, n_days,
                              n_points, seed, 0)
        pos1 == n_points * Len(cs)
        covariates == generate_covariates(n_points, cs, TRUE, 24, seed, pos1)
        pos2 == pos1 + (n_points + 24) * Len(cs)
        gen_forecast == wave_dict(1, [dict |-> EmptyDict, draws |-> <<>>], cs,
                                  5000 * Scale, 2000 * Scale, 200 * Scale,
                                  n_points + 24, seed, pos2)
    IN  Ok(<<priced.prices,
             [covariates.value EXCEPT
                 !.dynamic_numerical_covariates =
                     DictSet(@, "gen_forecast", gen_forecast.dict)]>>,
           priced.draws \o covariates.draws \o gen_forecast.draws)

----------------------------------------------------------------------------
(* Actions: one call each *)

TrendTypes == {"linear", "exponential", "logarithmic", "flat", "quadratic"}
Seasonalities == {"hourly", "daily", "weekly", "monthly", "yearly", "quarterly"}
BaseValues == {100 * Scale, 250 * Scale}
Strengths == {0, Scale \div 2, 2 * Scale}
NoiseLevels == {0, Scale \div 10}
Amplitudes == {0, Scale \div 5}
Periods == {-2, 0, 1, 4, 7}

\* one call of function f with arguments a and outcome r; the returned value
\* is filed under the function's name, since the functions return values of
\* different shapes
Call(f, a, r, seed) ==
    /\ rng = seed
    /\ fn' = f
    /\ args' = a
    /\ ret' = [g \in {f} |-> r.value]
    /\ raised' = r.raised
    /\ draws' = r.draws
    /\ rng' = rng

TrendSeries ==
    /\ fn = "none"
    /\ \E n \in Points, ty \in TrendTypes, b \in BaseValues, s \in Strengths,
       nl \in NoiseLevels, seed \in Seeds :
        Call("generate_trend_series",
             [n_points |-> n, trend_type |-> ty, base_value |-> b,
              trend_strength |-> s, noise_level |-> nl],
             generate_trend_series(n, ty, b, s, nl, seed), seed)

SeasonalSeries ==
    /\ fn = "none"
    /\ \E n \in Points, b \in BaseValues, se \in Seasonalities, am \in Amplitudes,
       nl \in NoiseLevels, seed \in Seeds :
        Call("generate_seasonal_series",
             [n_points |-> n, base_value |-> b, seasonality |-> se,
              amplitude |-> am, noise_level |-> nl],
             generate_seasonal_series(n, b, se, am, nl, seed), seed)

TrendSeasonalSeries ==
    /\ fn = "none"
    /\ \E n \in Points, b \in BaseValues, s \in Strengths, p \in Periods,
       am \in Amplitudes, nl \in NoiseLevels, seed \in Seeds :
        Call("generate_trend_seasonal_series",
             [n_points |-> n, base_value |-> b, trend_strength |-> s,
              seasonal_period |-> p, seasonal_amplitude |-> am, noise_level |-> nl],
             generate_trend_seasonal_series(n, b, s, p, am, nl, seed), seed)

Directions == {"up", "down", "both"}
Magnitudes == {Scale \div 2}
MaxListLen == 2
IndexLists == UNION {[1 .. k -> -1 .. (MaxPoints + 1)] : k \in 0 .. MaxListLen}
               \cup {<<1, 1, 1>>, <<0, 2, 0>>}

\* the outcomes of the sign draws a call can consume
SignDraws(len, anomaly_direction) ==
    IF anomaly_direction \in {"up", "down"} THEN {[k \in 1 .. len |-> 1]}
    ELSE [1 .. len -> {-1, 1}]

\* anomaly_indices supplied by the caller
AnomalySeriesGiven ==
    /\ fn = "none"
    /\ \E n \in Points, b \in {100 * Scale}, L \in IndexLists, m \in Magnitudes,
       d \in Directions, nl \in NoiseLevels, seed \in Seeds :
      \E signs \in SignDraws(Len(L), d) :
        Call("generate_anomaly_series",
             [n_points |-> n, base_value |-> b, anomaly_indices |-> Some(L),
              anomaly_magnitude |-> m, anomaly_direction |-> d, noise_level |-> nl,
              signs |-> signs],
             generate_anomaly_series(n, b, Some(L), m, d, nl, seed, Ok(<<>>, <<>>), signs),
             seed)

\* anomaly_indices omitted: the function picks them
DefaultCountPoints == Points \cup {20, 40}

AnomalySeriesDefault ==
    /\ fn = "none"
    /\ \E n \in DefaultCountPoints, b \in {100 * Scale}, m \in Magnitudes,
       d \in Directions, nl \in {Scale \div 20}, seed \in Seeds :
      \E picked \in choice(0 .. (n - 1), default_n_anomalies(n)) :
        \E signs \in SignDraws(Len(picked.value), d) :
          Call("generate_anomaly_series",
               [n_points |-> n, base_value |-> b, anomaly_indices |-> None,
                anomaly_magnitude |-> m, anomaly_direction |-> d, noise_level |-> nl,
                signs |-> signs],
               generate_anomaly_series(n, b, None, m, d, nl, seed, picked, signs),
               seed)

StartDates == {762478215, 757337400, 667872359, 765028800}
Freqs == {"H", "D", "W", "M", "Q"}

Timestamps ==
    /\ fn = "none"
    /\ \E n \in Points, sd \in {Some(t) : t \in StartDates} \cup {None}, f \in Freqs,
       now \in StartDates, seed \in Seeds :
        /\ sd.some => now = 762478215
        /\ Call("generate_timestamps",
                [n_points |-> n, start_date |-> sd, freq |-> f, now |-> now],
                generate_timestamps(n, sd, f, now), seed)

Ratios == {0, Scale \div 20, Scale \div 2, Scale}

AdPayloadData ==
    /\ fn = "none"
    /\ \E n \in Points, b \in {1000 * Scale}, inj \in BOOLEAN, r \in Ratios,
       now \in {762478215, 757337400}, seed \in Seeds :
      \E picked \in (IF inj THEN choice(second_half(n), ad_n_anomalies(n, r))
                     ELSE {Ok(<<>>, <<>>)}) :
        \E signs \in SignDraws(Len(picked.value), "both") :
          Call("generate_ad_payload_data",
               [n_points |-> n, base_value |-> b, inject_anomalies |-> inj,
                anomaly_ratio |-> r, now |-> now, picked |-> picked.value,
                signs |-> signs],
               generate_ad_payload_data(n, b, inj, r, now, seed, picked, signs),
               seed)

Correlations == {0, 600, Scale}
SeriesCounts == 0 .. MaxSeries
BaseValueLists == {None, Some(<<>>), Some(<<300 * Scale>>),
                   Some(<<300 * Scale, 50 * Scale, 70 * Scale>>)}

MultivariateSeries ==
    /\ fn = "none"
    /\ \E ns \in SeriesCounts, n \in Points, bv \in BaseValueLists, c \in Correlations,
          nl \in NoiseLevels, seed \in Seeds :
        Call("generate_multivariate_series",
             [n_series |-> ns, n_points |-> n, base_values |-> bv, correlation |-> c,
              noise_level |-> nl],
             generate_multivariate_series(ns, n, bv, c, nl, seed), seed)

SeriesIdLists == {<<>>, <<"a">>, <<"a", "b">>, <<"b", "a", "b">>,
                  <<"a", "b", "c", "d", "e">>}
Horizons == 0 .. MaxHorizon

Covariates ==
    /\ fn = "none"
    /\ \E n \in Points, ids \in SeriesIdLists, ih \in BOOLEAN, h \in Horizons,
          seed \in Seeds :
        Call("generate_covariates",
             [n_points |-> n, series_ids |-> ids, include_horizon |-> ih,
              horizon_len |-> h],
             generate_covariates(n, ids, ih, h, seed, 0), seed)

CountryLists == {None, Some(<<>>), Some(<<"FR">>), Some(<<"DE", "FR">>),
                 Some(<<"FR", "BE", "FR">>)}
DayCounts == 0 .. MaxDays

ElectricityLikeData ==
    /\ fn = "none"
    /\ \E nd \in DayCounts, cs \in CountryLists, seed \in Seeds :
        Call("generate_electricity_like_data",
             [n_days |-> nd, countries |-> cs],
             generate_electricity_like_data(nd, cs, seed), seed)

Init ==
    /\ fn = "none"
    /\ args = <<>>
    /\ ret = <<>>
    /\ raised = "none"
    /\ draws = <<>>
    /\ rng \in Seeds

Next ==
    \/ TrendSeries
    \/ SeasonalSeries
    \/ TrendSeasonalSeries
    \/ AnomalySeriesGiven
    \/ AnomalySeriesDefault
    \/ Timestamps
    \/ AdPayloadData
    \/ MultivariateSeries
    \/ Covariates
    \/ ElectricityLikeData

Spec == Init /\ [][Next]_vars

----------------------------------------------------------------------------
(* Properties *)

\* what the function called returned
Ret == ret[fn]

TrueCount(flags) == Cardinality({i \in DOMAIN flags : flags[i]})

Range(seq) == {seq[k] : k \in DOMAIN seq}

\* the entries of list L that lie in 0 .. n-1, as positions of L
ValidEntries(L, n) == {k \in DOMAIN L : 0 <= L[k] /\ L[k] < n}

\* how many entries of L equal idx
Occurrences(L, idx) == Cardinality({k \in DOMAIN L : L[k] = idx})

\* the k-th sample of the noise of a series call: sigma = base_value * noise_level
NoiseAt(k) == ((args.base_value * args.noise_level) \div Scale) * Z(rng, k)

AnomalyCall == fn = "generate_anomaly_series"

\* C1 as stated: the flag list is as long as the value list and as n_points,
\* and the number of true flags is the number of in-range entries of the
\* supplied list (repeated entries counted as supplied), or the computed
\* count max(1, floor(0.05 * n_points)) when no list is supplied.
C1_FlagsCountEntries ==
    (AnomalyCall /\ (args.anomaly_indices.some \/ args.n_points >= 1)) =>
        /\ raised = "none"
        /\ Len(Ret[2]) = args.n_points
        /\ Len(Ret[1]) = Len(Ret[2])
        /\ args.anomaly_indices.some =>
               TrueCount(Ret[2])
                   = Cardinality(ValidEntries(args.anomaly_indices.val, args.n_points))
        /\ ~args.anomaly_indices.some =>
               TrueCount(Ret[2]) = Max(1, (5 * args.n_points) \div 100)

\* C1 amended: as above, but the number of true flags is the number of
\* DISTINCT in-range indices of the supplied list; the flags are true exactly
\* at those indices.
C1_FlagsCountDistinct ==
    (AnomalyCall /\ (args.anomaly_indices.some \/ args.n_points >= 1)) =>
        /\ raised = "none"
        /\ Len(Ret[2]) = args.n_points
        /\ Len(Ret[1]) = Len(Ret[2])
        /\ args.anomaly_indices.some =>
               LET L == args.anomaly_indices.val
                   valid == {L[k] : k \in ValidEntries(L, args.n_points)}
               IN  /\ TrueCount(Ret[2]) = Cardinality(valid)
                   /\ \A i \in 1 .. args.n_points : Ret[2][i] <=> (i - 1) \in valid
        /\ ~args.anomaly_indices.some =>
               TrueCount(Ret[2]) = Max(1, (5 * args.n_points) \div 100)

\* a call whose list repeats an in-range index and holds out-of-range ones
C1_Witness ==
    /\ AnomalyCall
    /\ args.anomaly_indices = Some(<<0, 2, 0>>)
    /\ args.n_points = 2
    /\ raised = "none"
    /\ Ret[2] = <<TRUE, FALSE>>

\* the call was made with a zero point count
ZeroCount ==
    IF fn = "generate_electricity_like_data" THEN args.n_days = 0
    ELSE fn # "none" /\ args.n_points = 0

\* the returned value is the empty output of the function's kind
EmptyOutput ==
    IF fn \in {"generate_trend_series", "generate_seasonal_series",
               "generate_trend_seasonal_series", "generate_timestamps",
               "generate_ad_payload_data"}
    THEN Len(Ret) = 0
    ELSE IF fn = "generate_anomaly_series"
    THEN Len(Ret[1]) = 0 /\ Len(Ret[2]) = 0
    ELSE IF fn = "generate_multivariate_series"
    THEN \A k \in DOMAIN Ret : Len(Ret[k]) = 0
    ELSE IF fn = "generate_electricity_like_data"
    THEN \A c \in DOMAIN Ret[1] : Len(Ret[1][c]) = 0
    ELSE DOMAIN Ret = {"static_numerical_covariates", "static_categorical_covariates",
                       "dynamic_numerical_covariates", "dynamic_categorical_covariates"}

\* C2: every function called with a zero point count returns an empty output
\* of its kind and raises nothing.
C2_ZeroCountEmpty == ZeroCount => (raised = "none" /\ EmptyOutput)

\* C3: with n_points >= 1 and a ratio in [0, 1], generate_ad_payload_data
\* raises nothing and returns n_points records, the i-th pairing the i-th
\* hourly timestamp with the truncated i-th value; when injecting, the
\* anomaly indices are max(1, floor(ratio * n_points)) distinct indices of the
\* second half; when not injecting, no value carries an anomaly.
C3_AdPayloadRecords ==
    (fn = "generate_ad_payload_data" /\ args.n_points >= 1) =>
        LET n == args.n_points
            picked == args.picked
            series == generate_anomaly_series(n, args.base_value, Some(picked), 400,
                          "both", 30, rng, Ok(<<>>, <<>>), args.signs)
        IN  /\ raised = "none"
            /\ Len(Ret) = n
            /\ \A i \in 1 .. n :
                   /\ Ret[i].timestamp = strftime(args.now - 30 * 86400 + (i - 1) * 3600)
                   /\ Ret[i].value = Trunc(series.value[1][i])
            /\ args.inject_anomalies =>
                   /\ Len(picked) = Max(1, (n * args.anomaly_ratio) \div Scale)
                   /\ Cardinality(Range(picked)) = Len(picked)
                   /\ \A k \in DOMAIN picked : n \div 2 <= picked[k] /\ picked[k] < n
            /\ ~args.inject_anomalies => TrueCount(series.value[2]) = 0

CovariateKeys == {"static_numerical_covariates", "static_categorical_covariates",
                  "dynamic_numerical_covariates", "dynamic_categorical_covariates"}

\* C4: generate_covariates returns exactly the four keys; every identifier of
\* series_ids is a key of each covariate's mapping under each of the four;
\* every dynamic sequence has length n_points + horizon_len when
\* include_horizon holds, and n_points otherwise.
C4_CovariateBundle ==
    fn = "generate_covariates" =>
        /\ raised = "none"
        /\ DOMAIN Ret = CovariateKeys
        /\ \A key \in CovariateKeys :
               /\ DOMAIN Ret[key] # {}
               /\ \A name \in DOMAIN Ret[key] :
                      Range(args.series_ids) \subseteq DOMAIN Ret[key][name]
        /\ \A key \in {"dynamic_numerical_covariates", "dynamic_categorical_covariates"} :
               \A name \in DOMAIN Ret[key] : \A sid \in DOMAIN Ret[key][name] :
                   Len(Ret[key][name][sid])
                       = IF args.include_horizon THEN args.n_points + args.horizon_len
                                                 ELSE args.n_points

\* a call without horizon, with a repeated identifier and a positive horizon_len
C4_Witness ==
    /\ fn = "generate_covariates"
    /\ args.series_ids = <<"b", "a", "b">>
    /\ ~args.include_horizon
    /\ args.horizon_len = 2
    /\ args.n_points = 3
    /\ Len(Ret["dynamic_numerical_covariates"]["temperature"]["b"]) = 3

\* C5: an unrecognized trend_type gives the flat curve (base_value plus
\* noise), an unrecognized seasonality the period 7, an unrecognized freq the
\* one-hour step; none raises.
C5_Fallbacks ==
    /\ (fn = "generate_trend_series"
        /\ args.trend_type \notin {"linear", "exponential", "logarithmic", "flat"}) =>
           /\ raised = "none"
           /\ Len(Ret) = args.n_points
           /\ \A i \in 1 .. args.n_points : Ret[i] = args.base_value + NoiseAt(i)
    /\ (fn = "generate_seasonal_series"
        /\ args.seasonality \notin {"hourly", "daily", "weekly", "monthly", "yearly"}) =>
           /\ raised = "none"
           /\ Len(Ret) = args.n_points
           /\ \A i \in 1 .. args.n_points :
                  Ret[i] = args.base_value
                           + FMul(FMul(args.base_value, args.amplitude), sin2pi(i - 1, 7))
                           + NoiseAt(i)
    /\ (fn = "generate_timestamps" /\ args.freq \notin {"H", "D", "W", "M"}) =>
           /\ raised = "none"
           /\ Len(Ret) = args.n_points
           /\ LET T0 == IF args.start_date.some THEN args.start_date.val
                        ELSE args.now - 30 * 86400
              IN  \A i \in 1 .. args.n_points : Ret[i] = strftime(T0 + (i - 1) * 3600)

\* a seasonal call with an unrecognized label and a visible seasonal term
C5_Witness ==
    /\ fn = "generate_seasonal_series"
    /\ args.seasonality = "quarterly"
    /\ args.n_points = 4
    /\ args.amplitude > 0
    /\ raised = "none"
    /\ Ret[2] # Ret[1]

\* the pure linear trend, as generate_trend_series computes it without noise
LinearTrend ==
    generate_trend_series(args.n_points, "linear", args.base_value,
                          args.trend_strength, 0, rng).value

\* C6 as stated: with seasonal_amplitude = 0 and noise_level = 0 the result
\* is base + strength * i for i = 0 .. n-1, for every integer seasonal
\* period, and equals the linear trend of generate_trend_series.
C6_ReducesToLinear ==
    (fn = "generate_trend_seasonal_series" /\ args.seasonal_amplitude = 0
     /\ args.noise_level = 0) =>
        /\ raised = "none"
        /\ Len(Ret) = args.n_points
        /\ \A i \in 1 .. args.n_points :
               /\ Ret[i] = Float(args.base_value + args.trend_strength * (i - 1))
               /\ Ret[i] = Float(LinearTrend[i])

\* C6 amended: the same for every NONZERO integer seasonal period (with
\* period 0 every element is nan).
C6_ReducesToLinearNonzeroPeriod ==
    (fn = "generate_trend_seasonal_series" /\ args.seasonal_amplitude = 0
     /\ args.noise_level = 0 /\ args.seasonal_period # 0) =>
        /\ raised = "none"
        /\ Len(Ret) = args.n_points
        /\ \A i \in 1 .. args.n_points :
               /\ Ret[i] = Float(args.base_value + args.trend_strength * (i - 1))
               /\ Ret[i] = Float(LinearTrend[i])

\* a call with zero amplitude and noise, a real period and a real slope
C6_Witness ==
    /\ fn = "generate_trend_seasonal_series"
    /\ args.seasonal_amplitude = 0
    /\ args.noise_level = 0
    /\ args.seasonal_period = 7
    /\ args.trend_strength > 0
    /\ args.n_points = 4
    /\ Ret[4] = Float(args.base_value + 3 * args.trend_strength)

\* the step the claim gives each frequency code, in seconds
ClaimedStep(freq) ==
    IF freq = "H" THEN 3600
    ELSE IF freq = "D" THEN 86400
    ELSE IF freq = "W" THEN 604800
    ELSE 2592000

SeriesBase(i) ==
    IF ~args.base_values.some THEN (100 + 50 * i) * Scale
    ELSE IF i < Len(args.base_values.val) THEN args.base_values.val[i + 1]
    ELSE 100 * Scale

\* C8: one call of generate_multivariate_series draws the common component
\* once, first, then one individual component per series in series order;
\* every series blends that same common component; and the result has
\* exactly the keys series_0 .. series_{n_series-1}, each of length n_points,
\* also when base_values is shorter than n_series.
C8_CommonDrawnOnce ==
    fn = "generate_multivariate_series" =>
        LET n == args.n_points
            c == args.correlation
            common == [t \in 1 .. n |-> Z(rng, t)]
            individual(i) == [t \in 1 .. n |-> Z(rng, n * (i + 1) + t)]
            ramp(i, t) == IF n = 1 THEN 0
                          ELSE ((t - 1) * FMul(SeriesBase(i), 300)) \div (n - 1)
        IN  /\ raised = "none"
            /\ draws = [k \in 1 .. (args.n_series + 1) |-> <<"randn", n>>]
            /\ DOMAIN Ret = {"series_" \o ToString(i) : i \in 0 .. (args.n_series - 1)}
            /\ \A i \in 0 .. (args.n_series - 1) :
                   LET values == Ret["series_" \o ToString(i)]
                   IN  /\ Len(values) = n
                       /\ \A t \in 1 .. n :
                              values[t] = SeriesBase(i) + ramp(i, t)
                                  + FMul(FMul(c * common[t]
                                              + ISqrt(Scale * Scale - c * c) * individual(i)[t],
                                              SeriesBase(i)),
                                         args.noise_level)

\* a fully correlated call with fewer base values than series
C8_Witness ==
    /\ fn = "generate_multivariate_series"
    /\ args.n_series = 2
    /\ args.n_points = 4
    /\ args.base_values = Some(<<300 * Scale>>)
    /\ args.correlation = Scale
    /\ args.noise_level > 0
    /\ Len(draws) = 3
    /\ DOMAIN Ret = {"series_0", "series_1"}

\* the value of index i (from 0) before any anomaly is injected
UninjectedAt(i) == args.base_value + (args.base_value \div 1000) * i + NoiseAt(i + 1)

\* the offset of one anomaly of a call with direction 'up' or 'down'
ClaimedOffset ==
    (IF args.anomaly_direction = "up" THEN 1 ELSE -1)
        * ((args.base_value * args.anomaly_magnitude) \div Scale)

FixedDirectionCall ==
    /\ AnomalyCall
    /\ args.anomaly_indices.some
    /\ args.anomaly_direction \in {"up", "down"}

\* C9 as stated: with direction 'up' (resp. 'down') the value at each flagged
\* index is its un-injected value plus (resp. minus) exactly
\* anomaly_magnitude * base_value, every unflagged value is un-injected, and
\* out-of-range indices change nothing and raise nothing.
C9_OffsetOnce ==
    FixedDirectionCall =>
        /\ raised = "none"
        /\ \A i \in 0 .. (args.n_points - 1) :
               /\ Ret[2][i + 1] <=> i \in Range(args.anomaly_indices.val)
               /\ Ret[2][i + 1] => Ret[1][i + 1] = UninjectedAt(i) + ClaimedOffset
               /\ ~Ret[2][i + 1] => Ret[1][i + 1] = UninjectedAt(i)

\* C9 amended: the value at each flagged index is its un-injected value plus
\* (resp. minus) anomaly_magnitude * base_value once for EVERY occurrence of
\* the index in the supplied list; the rest as stated.
C9_OffsetPerOccurrence ==
    FixedDirectionCall =>
        /\ raised = "none"
        /\ \A i \in 0 .. (args.n_points - 1) :
               /\ Ret[2][i + 1] <=> i \in Range(args.anomaly_indices.val)
               /\ Ret[2][i + 1] =>
                      Ret[1][i + 1] = UninjectedAt(i)
                          + Occurrences(args.anomaly_indices.val, i) * ClaimedOffset
               /\ ~Ret[2][i + 1] => Ret[1][i + 1] = UninjectedAt(i)

\* a 'down' call whose list holds the same in-range index three times
C9_Witness ==
    /\ AnomalyCall
    /\ args.anomaly_direction = "down"
    /\ args.anomaly_indices = Some(<<1, 1, 1>>)
    /\ args.n_points = 3
    /\ raised = "none"
    /\ Ret[2] = <<FALSE, TRUE, FALSE>>
    /\ Ret[1][2] = UninjectedAt(1) + 3 * ClaimedOffset

\* the country list of an electricity call
Countries == IF args.countries.some THEN args.countries.val ELSE <<"FR", "BE">>

\* the last position of country c in the list: the one whose prices are kept
LastEntry(c) == CHOOSE k \in DOMAIN Countries :
                    Countries[k] = c /\ \A j \in DOMAIN Countries : Countries[j] = c => j <= k

\* C10: for n_days >= 1 every country has n_days * 24 prices whose part
\* without ramp and noise is base * intraday[i mod 24] * weekly(i), base 50
\* for 'FR' and 55 otherwise, weekly 1.0 on the first five days of each week
\* and 0.85 on the other two; the bundle is the one generate_covariates
\* builds over the countries with horizon 24, with 'gen_forecast' beside
\* 'temperature'; every dynamic sequence has length n_days * 24 + 24.
C10_ElectricityData ==
    (fn = "generate_electricity_like_data" /\ args.n_days >= 1) =>
        LET n == args.n_days * 24
            prices == Ret[1]
            bundle == Ret[2]
            built == generate_covariates(n, Countries, TRUE, 24, rng,
                                         n * Len(Countries)).value
            ramp(i) == (i * 5 * Scale) \div (n - 1)
            noise(c, i) == 3 * Scale * Z(rng, n * (LastEntry(c) - 1) + i + 1)
        IN  /\ raised = "none"
            /\ DOMAIN prices = Range(Countries)
            /\ \A c \in Range(Countries) :
                   /\ Len(prices[c]) = n
                   /\ \A i \in 0 .. (n - 1) :
                          prices[c][i + 1] - ramp(i) - noise(c, i)
                              = ((IF c = "FR" THEN 50 ELSE 55) * hourly_pattern[(i % 24) + 1]
                                 * (IF (i \div 24) % 7 < 5 THEN 1000 ELSE 850)) \div Scale
            /\ DOMAIN bundle = CovariateKeys
            /\ \A key \in CovariateKeys \ {"dynamic_numerical_covariates"} :
                   bundle[key] = built[key]
            /\ DOMAIN bundle["dynamic_numerical_covariates"] = {"temperature", "gen_forecast"}
            /\ bundle["dynamic_numerical_covariates"]["temperature"]
                   = built["dynamic_numerical_covariates"]["temperature"]
            /\ \A key \in {"dynamic_numerical_covariates", "dynamic_categorical_covariates"} :
                   \A name \in DOMAIN bundle[key] :
                       /\ DOMAIN bundle[key][name] = Range(Countries)
                       /\ \A c \in Range(Countries) : Len(bundle[key][name][c]) = n + 24

\* a call that reaches the weekend, with a non-French and a French country
C10_Witness ==
    /\ fn = "generate_electricity_like_data"
    /\ args.n_days = 6
    /\ args.countries = Some(<<"DE", "FR">>)
    /\ raised = "none"
    /\ Len(Ret[1]["FR"]) = 144
    /\ Len(Ret[2]["dynamic_numerical_covariates"]["gen_forecast"]["DE"]) = 168

====
